---------------------------- MODULE Spec2Model ----------------------------
(***************************************************************************)
(* A model of spyne/protocol/dictdoc/simple.py: the flat-dict <-> object   *)
(* codec of SimpleDictDocument.                                            *)
(*                                                                         *)
(*   _s2cmi                    the sparse-to-contiguous index map inserter *)
(*   _fill                     pre-seeding of the frequency table          *)
(*   simple_dict_to_object     the decoder, one step per flat key          *)
(*   object_to_simple_dict     the encoder, one step per schema field or   *)
(*                             array element of the frame on top of the    *)
(*                             call stack                                  *)
(*                                                                         *)
(* Python strings are sequences of one-character strings, so that sorting, *)
(* the array-index regular expression, '%d' formatting, int() and the      *)
(* iteration of a string are computed and not assumed.                     *)
(***************************************************************************)
EXTENDS Integers, Sequences, FiniteSets, TLC

\* ------------------------------------------------------------------ bounds
\* largest external index of the index-map harness
MaxExt == 8
\* largest bracket index written in a key of a small flat dict
MaxIdx == 2
\* a two-digit bracket index also offered to small flat dicts
BigIdx == 10
\* most keys of a small flat dict
MaxKeys == 2
\* most elements of a complete-index flat dict (indices 0..n-1)
MaxFull == 11
\* stand-in for the interpreter's recursion limit (call-stack depth)
RecursionLimit == 6

\* ----------------------------------------------------------------- strings
Max(S) == CHOOSE x \in S : \A y \in S : y <= x

Digits == <<"0", "1", "2", "3", "4", "5", "6", "7", "8", "9">>

IsDigit(c) == \E i \in 1..10 : Digits[i] = c

DigitVal(c) == (CHOOSE i \in 1..10 : Digits[i] = c) - 1

\* the code point of a character (only the order matters)
Ord(c) ==
    CASE c = "." -> 46
      [] IsDigit(c) -> 48 + DigitVal(c)
      [] c = "[" -> 91
      [] c = "]" -> 93
      [] c = "a" -> 97
      [] c = "b" -> 98
      [] c = "c" -> 99
      [] c = "d" -> 100
      [] c = "e" -> 101
      [] c = "h" -> 104
      [] c = "l" -> 108
      [] c = "m" -> 109
      [] c = "n" -> 110
      [] c = "p" -> 112
      [] c = "s" -> 115
      [] c = "t" -> 116
      [] c = "v" -> 118
      [] c = "w" -> 119
      [] c = "x" -> 120
      [] c = "y" -> 121
      [] c = "z" -> 122

\* s < t for Python strings: the first differing code point, else the length
RECURSIVE StrLess(_, _)
StrLess(s, t) ==
    IF t = <<>> THEN FALSE
    ELSE IF s = <<>> THEN TRUE
    ELSE IF Head(s) = Head(t) THEN StrLess(Tail(s), Tail(t))
    ELSE Ord(Head(s)) < Ord(Head(t))

\* '%d' % n
RECURSIVE Dec(_)
Dec(n) == IF n < 10 THEN <<Digits[n + 1]>> ELSE Dec(n \div 10) \o <<Digits[(n % 10) + 1]>>

\* int(s) of a string of digits
RECURSIVE ParseInt(_)
ParseInt(s) ==
    IF s = <<>> THEN 0 ELSE 10 * ParseInt(SubSeq(s, 1, Len(s) - 1)) + DigitVal(s[Len(s)])

\* delim.join(segs)
RECURSIVE Join(_, _)
Join(segs, delim) ==
    IF segs = <<>> THEN <<>>
    ELSE IF Len(segs) = 1 THEN segs[1]
    ELSE segs[1] \o delim \o Join(Tail(segs), delim)

\* the length of the run of digits of s that starts at position i
RECURSIVE DigitRun(_, _)
DigitRun(s, i) == IF i <= Len(s) /\ IsDigit(s[i]) THEN 1 + DigitRun(s, i + 1) ELSE 0

\* the length of the match of \[([0-9]+)] at position i of s, 0 when none
MatchLen(s, i) ==
    IF i <= Len(s) /\ s[i] = "["
    THEN LET r == DigitRun(s, i + 1)
         IN  IF r > 0 /\ i + r + 1 <= Len(s) /\ s[i + r + 1] = "]" THEN r + 2 ELSE 0
    ELSE 0

\* RE_HTTP_ARRAY_INDEX.sub("", s), from position i on
RECURSIVE ReSub(_, _)
ReSub(s, i) ==
    IF i > Len(s) THEN <<>>
    ELSE LET n == MatchLen(s, i)
         IN  IF n > 0 THEN ReSub(s, i + n) ELSE <<s[i]>> \o ReSub(s, i + 1)

\* RE_HTTP_ARRAY_INDEX.findall(s), from position i on: the digit groups
RECURSIVE ReFindAll(_, _)
ReFindAll(s, i) ==
    IF i > Len(s) THEN <<>>
    ELSE LET n == MatchLen(s, i)
         IN  IF n > 0 THEN <<SubSeq(s, i + 1, i + n - 2)>> \o ReFindAll(s, i + n)
             ELSE ReFindAll(s, i + 1)

\* list.insert(i, e), i counted from 0
InsertAt(l, i, e) ==
    LET j == IF i > Len(l) THEN Len(l) ELSE i
    IN  SubSeq(l, 1, j) \o <<e>> \o SubSeq(l, j + 1, Len(l))

\* ------------------------------------------------------------------ _s2cmi
\* a variant that forgets to shift the entries at or after the new index
s2cmi_noshift(m, nidx) ==
    LET low == {m[i] : i \in {j \in DOMAIN m : j < nidx}}
        nv == Max(low \cup {-1})
    IN  [m |-> [i \in DOMAIN m \cup {nidx} |-> IF i = nidx THEN nv + 1 ELSE m[i]],
         ret |-> nv + 1]

\* _s2cmi(m, nidx): the map after the call and the value returned
s2cmi(m, nidx) ==
    LET low == {m[i] : i \in {j \in DOMAIN m : j < nidx}}
        nv == Max(low \cup {-1})
    IN  [m |-> [i \in DOMAIN m \cup {nidx} |->
                   IF i = nidx THEN nv + 1
                   ELSE IF i >= nidx THEN m[i] + 1 ELSE m[i]],
         ret |-> nv + 1]

EmptyMap == [i \in {} |-> 0]

VARIABLES imap, iarr, inidx, icidx

mapVars == <<imap, iarr, inidx, icidx>>

\* an empty IndexMap and an empty array; no call made yet
MapInit == imap = EmptyMap /\ iarr = <<>> /\ inidx = -1 /\ icidx = -1

\* the sparse branch of the decoder for one array: look the external index
\* up, insert it when new, and put the new element (named by its external
\* index) at the slot returned
MapInsert ==
    \E nidx \in 0..MaxExt :
        IF nidx \in DOMAIN imap
        THEN /\ inidx' = nidx
             /\ icidx' = imap[nidx]
             /\ UNCHANGED <<imap, iarr>>
        ELSE LET r == s2cmi(imap, nidx)
             IN  /\ imap' = r.m
                 /\ icidx' = r.ret
                 /\ iarr' = InsertAt(iarr, r.ret, nidx)
                 /\ inidx' = nidx


\* ------------------------------------------------------------------ schema
\* The schema the calls are given: class R (the root of a decode) with
\*   s : Unicode                         single leaf (type RS)
\*   l : Unicode(max_occurs=unbounded)   multi-valued leaf (type RL)
\*   a : T,  b : T                       two singleton members of one class
\*   c : T.customize(max_occurs=unbounded)     (type TM)
\*   d : Array(T)                        (type ArrT, its member type TA)
\* class T with the single leaf x, and the self-referential class N
\* (x : Unicode, n : N) with its wrapper W (h : N).
\* schema is the part of it a call may vary: min_occurs of R.s, the
\* sub_name of R.s and of R.l, and the classes with validate_freq off.
VARIABLES schema

NoName == <<>>

hier_delim == <<".">>

\* cls.get_flat_type_info(cls): the ordered (name, type) pairs of a class
FieldsOf(t) ==
    CASE t = "R" -> << <<"s", "RS">>, <<"l", "RL">>, <<"a", "T">>, <<"b", "T">>,
                       <<"c", "TM">>, <<"d", "ArrT">> >>
      [] t \in {"T", "TM", "TA"} -> << <<"x", "Unicode">> >>
      [] t = "ArrT" -> << <<"T", "TA">> >>
      [] t = "N" -> << <<"x", "Unicode">>, <<"n", "N">> >>
      [] t = "W" -> << <<"h", "N">> >>
      [] OTHER -> <<>>

FieldNames(t) == {FieldsOf(t)[i][1] : i \in 1..Len(FieldsOf(t))}

FieldType(t, name) ==
    LET i == CHOOSE j \in 1..Len(FieldsOf(t)) : FieldsOf(t)[j][1] = name
    IN  FieldsOf(t)[i][2]

\* issubclass(t, ComplexModelBase)
IsComplex(t) == t \in {"R", "T", "TM", "TA", "ArrT", "N", "W"}

\* issubclass(t, Array)
IsArray(t) == t = "ArrT"

\* the single member type of an Array class
ElemType(t) == FieldsOf(t)[1][2]

\* Attributes.max_occurs > 1
MaxOccursGt1(t) == t \in {"RL", "TM", "TA"}

\* Attributes.max_occurs, for the types where it is finite
MaxOccurs(t) == 1

\* Attributes.min_occurs
MinOccurs(t) == IF t = "RS" THEN schema.smin ELSE 0

\* Attributes.sub_name (NoName: None)
SubName(t) ==
    CASE t = "RS" -> schema.ssub
      [] t = "RL" -> schema.lsub
      [] OTHER -> NoName

\* Attributes.validate_freq
ValidateFreq(t) == t \notin schema.novf

\* the segment a field contributes to a flat key: sub_name, else its name
Segment(name, t) == IF SubName(t) = NoName THEN <<name>> ELSE SubName(t)

\* ------------------------------------------------------------------ values
None == [k |-> "none"]

Str(s) == [k |-> "str", v |-> s]

Ref(o) == [k |-> "ref", id |-> o]

List(items) == [k |-> "list", items |-> items]

EmptyMarker == Str(<<"e", "m", "p", "t", "y">>)

\* cls.get_deserialization_instance(ctx): a blank instance of class t
Blank(t) == [cls |-> t, f |-> [n \in FieldNames(t) |-> None]]

\* cinst._safe_set(name, value, ...): the write takes effect
SafeSet(heap, o, name, value) == [heap EXCEPT ![o].f[name] = value]

\* the sub_name settings a schema may carry: <<sub_name of R.s, of R.l>>
SubNames == {NoName, <<"s">>, <<"a", ".", "x">>}

\* the segment a field contributes to a flat key under the setting sub
SegmentIn(sub, name, t) ==
    CASE t = "RS" /\ sub[1] # NoName -> sub[1]
      [] t = "RL" /\ sub[2] # NoName -> sub[2]
      [] OTHER -> <<name>>

\* cls.get_simple_type_info_with_prot(cls, prot, hier_delim): the members of
\* class t reached under the field path `path` and the key prefix `segs`
RECURSIVE Members(_, _, _, _)
Members(sub, t, path, segs) ==
    UNION {
        LET name == FieldsOf(t)[i][1]
            v == FieldsOf(t)[i][2]
            p == Append(path, name)
            sg == Append(segs, SegmentIn(sub, name, v))
            mine == [key |-> Join(sg, hier_delim), path |-> p, type |-> v,
                     can_be_empty |-> IsComplex(v)]
            el == IF IsArray(v) THEN ElemType(v) ELSE v
        IN  {mine} \cup (IF IsComplex(el) THEN Members(sub, el, p, sg) ELSE {})
        : i \in 1..Len(FieldsOf(t))}

\* the table of class R, for each sub_name setting
TypeInfoTable == [sub \in SubNames \X SubNames |-> Members(sub, "R", <<>>, <<>>)]

simple_type_info == TypeInfoTable[<<schema.ssub, schema.lsub>>]

\* ----------------------------------------------------------------- decoder
\* doc            the flat dict of the call: key -> value
\* strict_arrays  the protocol's strict_arrays option
\* validator      "soft" (SOFT_VALIDATION) or "none"
\* pending        the keys of doc the loop has not reached yet
\* dec            the call's working state: heap (the instances built, the
\*                root first), idxmap, freq (frequencies) and owners (for
\*                each frequencies key, the instances whose fields were
\*                counted under it) and icount (for each instance and field,
\*                the number of values counted for it)
\* status         "running", "returned", or the exception that ended the call
\* lastKey        the key the loop processed last
VARIABLES doc, strict_arrays, validator, pending, dec, status, lastKey

decVars == <<doc, strict_arrays, validator, pending, dec, status, lastKey>>

NoKey == <<>>

EmptyFn == [x \in {} |-> 0]

RootKey == << <<"R", 0>> >>

\* frequencies[key][name] += n, on defaultdicts; o is the instance counted
Bump(d, key, name, n, o) ==
    LET old == IF key \in DOMAIN d.freq THEN d.freq[key] ELSE EmptyFn
        cnt == IF name \in DOMAIN old THEN old[name] ELSE 0
        own == IF key \in DOMAIN d.owners THEN d.owners[key] ELSE {}
        had == IF <<o, name>> \in DOMAIN d.icount THEN d.icount[<<o, name>>] ELSE 0
    IN  [d EXCEPT !.freq = (key :> ((name :> cnt + n) @@ old)) @@ d.freq,
                  !.owners = (key :> (own \cup {o})) @@ d.owners,
                  !.icount = (<<o, name>> :> had + n) @@ d.icount]

\* a variant that seeds nothing
fill_nothing(d, t) == d

\* _fill(inst_class, frequencies): a zero count for every mandatory field
fill(d, t) ==
    LET req == {n \in FieldNames(t) : MinOccurs(FieldType(t, n)) > 0}
    IN  IF req = {} THEN d
        ELSE [d EXCEPT !.freq = (RootKey :> [n \in req |-> 0]) @@ d.freq,
                       !.owners = (RootKey :> {1}) @@ d.owners]

\* the state of a call before its first key
DecStart(val) ==
    LET d0 == [heap |-> <<Blank("R")>>, idxmap |-> EmptyFn, freq |-> EmptyFn,
               owners |-> EmptyFn, icount |-> EmptyFn, err |-> "none"]
    IN  IF val = "soft" THEN fill(d0, "R") ELSE d0

\* sorted(doc.items(), key=lambda _k: _k[0]): the next key of the loop
FirstKey(keys) == CHOOSE k \in keys : \A j \in keys \ {k} : StrLess(k, j)

\* simple_type_info.get(k, None)
HasMember(k) == \E m \in simple_type_info : m.key = k

MemberOf(k) == CHOOSE m \in simple_type_info : m.key = k

\* `for v2 in v`: the items of a list, the characters of a string
Iterate(v) ==
    IF v.k = "list" THEN v.items ELSE [i \in 1..Len(v.v) |-> Str(<<v.v[i]>>)]

\* a new instance of class t on the heap
Alloc(d, t) == [d EXCEPT !.heap = Append(@, Blank(t))]

\* a strict variant without the auto-materialised element 0
StrictHopNoAuto(d, owner, name, ncls, nidx, key) ==
    LET l1 == d.heap[owner].f[name].items
    IN  IF nidx > Len(l1) THEN [d |-> [d EXCEPT !.err = "InvalidIndex"], cinst |-> 0]
        ELSE LET d2 == IF nidx = Len(l1)
                       THEN LET a == Alloc(d, ncls)
                            IN  Bump([a EXCEPT !.heap = SafeSet(a.heap, owner, name,
                                                  List(Append(l1, Ref(Len(a.heap)))))],
                                     key, name, 1, owner)
                       ELSE d
             IN  [d |-> d2, cinst |-> d2.heap[owner].f[name].items[nidx + 1].id]

\* lines 247-260: the strict_arrays branch of an array hop. The list is in
\* field `name` of instance `owner`; the result's cinst is 0 on an error
StrictHop(d, owner, name, ncls, nidx, key) ==
    LET l0 == d.heap[owner].f[name].items
        d1 == IF Len(l0) = 0
              THEN LET a == Alloc(d, ncls)
                   IN  Bump([a EXCEPT !.heap = SafeSet(a.heap, owner, name,
                                                  List(<<Ref(Len(a.heap))>>))],
                            key, name, 1, owner)
              ELSE d
        l1 == d1.heap[owner].f[name].items
    IN  IF nidx > Len(l1) THEN [d |-> [d1 EXCEPT !.err = "InvalidIndex"], cinst |-> 0]
        ELSE LET d2 == IF nidx = Len(l1)
                       THEN LET a == Alloc(d1, ncls)
                            IN  Bump([a EXCEPT !.heap = SafeSet(a.heap, owner, name,
                                                  List(Append(l1, Ref(Len(a.heap)))))],
                                     key, name, 1, owner)
                       ELSE d1
             IN  [d |-> d2, cinst |-> d2.heap[owner].f[name].items[nidx + 1].id]

\* lines 262-270: the sparse branch of an array hop
SparseHop(d, owner, name, ncls, nidx, key) ==
    LET lid == <<owner, name>>
        m == IF lid \in DOMAIN d.idxmap THEN d.idxmap[lid] ELSE EmptyMap
        l0 == d.heap[owner].f[name].items
    IN  IF nidx \in DOMAIN m
        THEN [d |-> [d EXCEPT !.idxmap = (lid :> m) @@ d.idxmap],
              cinst |-> l0[m[nidx] + 1].id]
        ELSE LET r == s2cmi(m, nidx)
                 a == Alloc(d, ncls)
                 l1 == InsertAt(l0, r.ret, Ref(Len(a.heap)))
                 d2 == Bump([a EXCEPT !.heap = SafeSet(a.heap, owner, name, List(l1)),
                                      !.idxmap = (lid :> r.m) @@ d.idxmap],
                            key, name, 1, owner)
             IN  [d |-> d2, cinst |-> l1[r.ret + 1].id]

\* lines 229-284: one hop of the walk along member.path[:-1]. w carries the
\* loop's variables: d, cinst, ctype (the class of ctype_info), key
\* (cfreq_key), indexes and idx
Hop(w, pkey) ==
    LET ncls0 == FieldType(w.ctype, pkey)
        ninst == w.d.heap[w.cinst].f[pkey]
        ncls == IF IsArray(ncls0) THEN ElemType(ncls0) ELSE ncls0
    IN  IF MaxOccursGt1(ncls)
        THEN LET nidx == IF w.indexes = <<>> THEN 0 ELSE ParseInt(Head(w.indexes))
                 rest == IF w.indexes = <<>> THEN <<>> ELSE Tail(w.indexes)
                 d1 == IF ninst = None
                       THEN [w.d EXCEPT !.heap = SafeSet(@, w.cinst, pkey, List(<<>>))]
                       ELSE w.d
                 h == IF strict_arrays
                      THEN StrictHop(d1, w.cinst, pkey, ncls, nidx, w.key)
                      ELSE SparseHop(d1, w.cinst, pkey, ncls, nidx, w.key)
             IN  [d |-> h.d, cinst |-> h.cinst, ctype |-> ncls,
                  key |-> Append(w.key, <<ncls, nidx>>), indexes |-> rest, idx |-> nidx]
        ELSE LET d1 == IF ninst = None
                       THEN LET a == Alloc(w.d, ncls)
                            IN  Bump([a EXCEPT !.heap = SafeSet(a.heap, w.cinst, pkey,
                                                                Ref(Len(a.heap)))],
                                     w.key, pkey, 1, w.cinst)
                       ELSE w.d
             IN  [d |-> d1, cinst |-> d1.heap[w.cinst].f[pkey].id, ctype |-> ncls,
                  key |-> Append(w.key, <<ncls, 0>>), indexes |-> w.indexes, idx |-> 0]

\* `for pkey in member.path[:-1]`, from hop i on; an error ends the walk
RECURSIVE Walk(_, _, _)
Walk(w, path, i) ==
    IF i >= Len(path) \/ w.d.err # "none" THEN w ELSE Walk(Hop(w, path[i]), path, i + 1)

\* lines 286-308: count and assign the value at the end of the path
Assign(w, member, value) ==
    LET last == member.path[Len(member.path)]
        d1 == Bump(w.d, w.key, last, Len(value), w.cinst)
        cur == d1.heap[w.cinst].f[last]
    IN  IF MaxOccursGt1(member.type)
        THEN IF cur = None
             THEN [d1 EXCEPT !.heap = SafeSet(@, w.cinst, last, List(value))]
             ELSE [d1 EXCEPT !.heap = SafeSet(@, w.cinst, last, List(cur.items \o value))]
        ELSE IF value = <<>>
             THEN [d1 EXCEPT !.err = "IndexError"]
             ELSE [d1 EXCEPT !.heap = SafeSet(@, w.cinst, last, value[1])]

\* lines 184-308: the body of the loop for the key orig_k with value v
DecodeOne(d, orig_k, v) ==
    LET k == ReSub(orig_k, 1)
    IN  IF ~HasMember(k) THEN d
        ELSE LET member == MemberOf(k)
                 w0(dd) == [d |-> dd, cinst |-> 1, ctype |-> "R", key |-> RootKey,
                            indexes |-> ReFindAll(orig_k, 1), idx |-> 0]
             IN  IF member.can_be_empty
                 THEN IF v # List(<<EmptyMarker>>) THEN d
                      ELSE IF IsArray(member.type) \/ MaxOccursGt1(member.type)
                           THEN LET w == Walk(w0(d), member.path, 1)
                                IN  IF w.d.err # "none" THEN w.d ELSE Assign(w, member, <<>>)
                           ELSE LET a == Alloc(d, member.type)
                                    w == Walk(w0(a), member.path, 1)
                                IN  IF w.d.err # "none" THEN w.d
                                    ELSE Assign(w, member, <<Ref(Len(a.heap))>>)
                 ELSE IF v.k = "none" THEN [d EXCEPT !.err = "TypeError"]
                      ELSE LET w == Walk(w0(d), member.path, 1)
                           IN  IF w.d.err # "none" THEN w.d
                               ELSE Assign(w, member, Iterate(v))

\* DictDocument._check_freq_dict(cls, d): some field of class t has a count
\* outside [min_occurs, max_occurs]; an Array member is held to the bounds
\* of its element type
FreqViolation(t, counts) ==
    \E n \in FieldNames(t) :
        LET ft == FieldType(t, n)
            bt == IF IsArray(ft) THEN ElemType(ft) ELSE ft
            val == IF n \in DOMAIN counts THEN counts[n] ELSE 0
        IN  val < MinOccurs(bt) \/ (~MaxOccursGt1(bt) /\ val > MaxOccurs(bt))

\* lines 312-321: the entries whose whole class chain validates frequencies
Checked(key) == \A i \in 1..Len(key) : ValidateFreq(key[i][1])

FreqFails(d) ==
    \E key \in DOMAIN d.freq :
        Checked(key) /\ FreqViolation(key[Len(key)][1], d.freq[key])

\* one iteration of the loop over the sorted items
DecodeKey ==
    /\ status = "running"
    /\ pending # {}
    /\ LET k == FirstKey(pending)
           d == DecodeOne(dec, k, doc[k])
       IN  /\ dec' = d
           /\ pending' = pending \ {k}
           /\ lastKey' = k
           /\ status' = IF d.err # "none" THEN d.err ELSE "running"
    /\ UNCHANGED <<doc, strict_arrays, validator, schema>>

\* lines 310-328: the frequency check under soft validation, and the return
DecodeFinish ==
    /\ status = "running"
    /\ pending = {}
    /\ status' = IF validator = "soft" /\ FreqFails(dec) THEN "FreqError" ELSE "returned"
    /\ UNCHANGED <<doc, strict_arrays, validator, schema, pending, dec, lastKey>>

\* ------------------------------------------------------------ flat dicts
\* the bracket indices written in the keys of a small flat dict
Indices == (0..MaxIdx) \cup {BigIdx}

\* the key of leaf x of element i of array field f, as the encoder writes it
ElemKey(f, i) == <<f, "[">> \o Dec(i) \o <<"]", ".", "x">>

\* the same key with the index left out (it defaults to 0)
BareKey(f) == <<f, ".", "x">>

One(s) == List(<<Str(s)>>)

ArrayFields == {"c", "d"}

\* the (key, value) pairs of the small flat dicts: an array leaf carries
\* its own index, so that the order of the elements shows in the result
Entries ==
    {<<k, v>> : k \in {<<"s">>, <<"l">>},
                v \in {One(<<"v">>), List(<<Str(<<"v">>), Str(<<"w">>)>>)}}
    \cup {<<k, v>> : k \in {<<"a">>, <<"b">>, <<"c">>, <<"d">>},
                     v \in {List(<<EmptyMarker>>), One(<<"v">>)}}
    \cup {<<k, One(<<"v">>)>> : k \in {<<"z">>, <<"a", ".", "x">>, <<"b", ".", "x">>}}
    \cup {<<BareKey(f), One(Dec(0))>> : f \in ArrayFields}
    \cup {<<ElemKey(f, i), One(Dec(i))>> : f \in ArrayFields, i \in Indices}

\* the flat dicts of exactly n of these keys
RECURSIVE DocsOfSize(_)
DocsOfSize(n) ==
    IF n = 0 THEN {EmptyFn}
    ELSE {(p[2][1] :> p[2][2]) @@ p[1] :
             p \in {q \in DocsOfSize(n - 1) \X Entries : q[2][1] \notin DOMAIN q[1]}}

SmallDocs == UNION {DocsOfSize(n) : n \in 0..MaxKeys}

\* the flat dict addressing array field f with exactly the indices 0..n-1
FullDoc(f, n) ==
    [k \in {ElemKey(f, i) : i \in 0..(n - 1)} |->
        One(Dec(CHOOSE i \in 0..(n - 1) : k = ElemKey(f, i)))]

FullDocs == {FullDoc(f, n) : f \in ArrayFields, n \in 1..MaxFull}

\* the schemas offered to a decode: no sub_name, R.s optional or mandatory
DecSchemas ==
    [smin : {0, 1}, ssub : {NoName}, lsub : {NoName},
     novf : {{}, {"R"}, {"T", "TM", "TA"}}]

\* the start of a decode call on one of `docs`
DecInit(docs) ==
    /\ schema \in DecSchemas
    /\ doc \in docs
    /\ strict_arrays \in BOOLEAN
    /\ validator \in {"soft", "none"}
    /\ pending = DOMAIN doc
    /\ dec = DecStart(validator)
    /\ status = "running"
    /\ lastKey = NoKey

\* the index-map harness at rest
MapIdle == MapInit

\* no decode call
DecIdle ==
    /\ schema = [smin |-> 0, ssub |-> NoName, lsub |-> NoName, novf |-> {}]
    /\ doc = EmptyFn
    /\ strict_arrays = FALSE
    /\ validator = "none"
    /\ pending = {}
    /\ dec = DecStart("none")
    /\ status = "idle"
    /\ lastKey = NoKey

\* ----------------------------------------------------------------- encoder
\* einput   the call's arguments: cls, the instance graph (heap) and the id
\*          of the instance inst in it
\* enc      the call's working state: stack (one frame per active call on a
\*          structured class: cls, inst, prefix, the next field fi and the
\*          next array element ei), retval and tags
\* estatus  "running", "returned", or the exception that ended the call
VARIABLES einput, enc, estatus

encVars == <<einput, enc, estatus>>

\* id(v) in tags
InTags(e, v) == v.k = "ref" /\ v.id \in e.tags

\* getattr(inst, name, None)
GetAttr(heap, inst, name) == IF inst.k = "ref" THEN heap[inst.id].f[name] ELSE None

\* lines 343-353 and 398-405: a (recursive) call on type t and value v with
\* tags given: return at once for an unset optional value or a tagged
\* instance, walk the fields of a structured class, emit a leaf
Enter(e, heap, t, v, prefix) ==
    IF v = None /\ MinOccurs(t) = 0 THEN e
    ELSE IF InTags(e, v) THEN e
    ELSE IF IsComplex(t)
    THEN IF Len(e.stack) >= RecursionLimit THEN [e EXCEPT !.err = "RecursionError"]
         ELSE [e EXCEPT !.stack = Append(@, [cls |-> t, inst |-> v, prefix |-> prefix,
                                             fi |-> 1, ei |-> 0])]
    ELSE LET key == Join(prefix, hier_delim)
         IN  IF key \in DOMAIN e.retval THEN [e EXCEPT !.err = "ValueError"]
             ELSE [e EXCEPT !.retval = (key :> v) @@ @]

\* lines 337-353: the top-level call (tags is None) on a structured class
EncStart(in) ==
    [stack |-> <<[cls |-> in.cls, inst |-> Ref(in.root), prefix |-> <<>>,
                  fi |-> 1, ei |-> 0]>>,
     retval |-> EmptyFn,
     tags |-> {in.root},
     err |-> "none"]

\* lines 355-396: the frame on top of the stack handles its next field, or
\* the next element of the structured array it is in, or returns
EncodeOne(e, heap) ==
    LET n == Len(e.stack)
        fr == e.stack[n]
    IN  IF fr.fi > Len(FieldsOf(fr.cls))
        THEN [e EXCEPT !.stack = SubSeq(@, 1, n - 1)]
        ELSE
        LET k == FieldsOf(fr.cls)[fr.fi][1]
            v == FieldsOf(fr.cls)[fr.fi][2]
            seg == Segment(k, v)
            new_prefix == Append(fr.prefix, seg)
            subinst == GetAttr(heap, fr.inst, k)
            nextField == [e EXCEPT !.stack[n].fi = @ + 1, !.stack[n].ei = 0]
        IN  IF (IsArray(v) \/ MaxOccursGt1(v)) /\ subinst # None
            THEN LET subtype == IF IsArray(v) THEN ElemType(v) ELSE v
                 IN  IF ~IsComplex(subtype)
                     THEN [nextField EXCEPT
                              !.retval = (Join(new_prefix, hier_delim) :> List(subinst.items))
                                         @@ @]
                     ELSE IF fr.ei < Len(subinst.items)
                     THEN Enter([e EXCEPT !.stack[n].ei = @ + 1], heap, subtype,
                                subinst.items[fr.ei + 1],
                                Append(fr.prefix, seg \o <<"[">> \o Dec(fr.ei) \o <<"]">>))
                     ELSE IF Len(subinst.items) = 0
                     THEN [nextField EXCEPT
                              !.retval = (Join(new_prefix, hier_delim) :> EmptyMarker) @@ @]
                     ELSE nextField
            ELSE Enter(nextField, heap, v, subinst, new_prefix)

\* one step of the call
EncodeStep ==
    /\ estatus = "running"
    /\ enc.stack # <<>>
    /\ LET e == EncodeOne(enc, einput.heap)
       IN  /\ enc' = e
           /\ estatus' = IF e.err # "none" THEN e.err
                         ELSE IF e.stack = <<>> THEN "returned" ELSE "running"
    /\ UNCHANGED <<einput, schema>>

vars == <<mapVars, schema, decVars, encVars>>

\* ------------------------------------------------------- instance graphs
Obj(t, f) == [cls |-> t, f |-> f]

\* the instances of class R over two instances of class T (ids 2 and 3),
\* which the fields of R may share
GraphsR ==
    {<<Obj("R", [s |-> s, l |-> l, a |-> a, b |-> b, c |-> c, d |-> d]),
       Obj("T", [x |-> Str(<<"p">>)]),
       Obj("T", [x |-> x3])>> :
        s \in {None, Str(<<"v">>), Str(<<"v", "w">>)},
        l \in {None, List(<<>>), List(<<Str(<<"w">>)>>)},
        a \in {None, Ref(2)},
        b \in {None, Ref(2), Ref(3)},
        c \in {None, List(<<>>), List(<<Ref(2)>>), List(<<Ref(3), Ref(3)>>),
               List(<<Ref(2), Ref(3)>>)},
        d \in {None, List(<<>>), List(<<Ref(3)>>)},
        x3 \in {None, Str(<<"q">>)}}

\* a wrapper W (id 1) over two instances of the self-referential class N
GraphsN ==
    {<<Obj("W", [h |-> h]),
       Obj("N", [x |-> Str(<<"p">>), n |-> n2]),
       Obj("N", [x |-> Str(<<"q">>), n |-> n3])>> :
        h \in {None, Ref(2)},
        n2 \in {None, Ref(2), Ref(3)},
        n3 \in {None, Ref(2), Ref(3)}}

\* the references an instance holds
RefsOf(o) ==
    LET vals == {o.f[n] : n \in DOMAIN o.f}
    IN  {<<n, 0>> : n \in {m \in DOMAIN o.f : o.f[m].k = "ref"}}
        \cup UNION {{<<n, i>> : i \in {j \in 1..Len(o.f[n].items) : o.f[n].items[j].k = "ref"}}
                    : n \in {m \in DOMAIN o.f : o.f[m].k = "list"}}

\* the instance a reference <<field, position>> of o leads to
Target(o, r) == IF r[2] = 0 THEN o.f[r[1]].id ELSE o.f[r[1]].items[r[2]].id

\* no instance of the graph is referenced twice (and so none is on a cycle
\* that can be reached from instance 1)
TreeShaped(heap) ==
    \A o1, o2 \in 1..Len(heap) :
        \A r1 \in RefsOf(heap[o1]), r2 \in RefsOf(heap[o2]) :
            (Target(heap[o1], r1) = Target(heap[o2], r2)) => (o1 = o2 /\ r1 = r2)

\* the schemas offered to an encode of R: the sub_name settings
EncSchemas ==
    {[smin |-> 0, ssub |-> p[1], lsub |-> p[2], novf |-> {}] :
        p \in {<<NoName, NoName>>, <<NoName, <<"s">>>>, <<<<"a", ".", "x">>, NoName>>,
               <<NoName, <<"a", ".", "x">>>>}}

PlainSchema == [smin |-> 0, ssub |-> NoName, lsub |-> NoName, novf |-> {}]

\* the start of a top-level encode call
EncInit(inputs) ==
    /\ einput \in inputs
    /\ enc = EncStart(einput)
    /\ estatus = "running"

\* no encode call
EncIdle ==
    /\ einput = [cls |-> "R", heap |-> <<>>, root |-> 1]
    /\ enc = [stack |-> <<>>, retval |-> EmptyFn, tags |-> {}, err |-> "none"]
    /\ estatus = "idle"

\* ---------------------------------------------------------- specifications
\* the index map under any sequence of insertions
InitMap == MapInit /\ DecIdle /\ EncIdle

NextMap == MapInsert /\ UNCHANGED <<schema, decVars, encVars>>

SpecMap == InitMap /\ [][NextMap]_vars

\* decode calls on the small flat dicts
InitDec == DecInit(SmallDocs) /\ MapIdle /\ EncIdle

DecodeKeyStep == DecodeKey /\ UNCHANGED <<mapVars, encVars>>

DecodeFinishStep == DecodeFinish /\ UNCHANGED <<mapVars, encVars>>

NextDec == DecodeKeyStep \/ DecodeFinishStep

SpecDec == InitDec /\ [][NextDec]_vars

\* decode calls on the complete-index flat dicts
InitFull == DecInit(FullDocs) /\ MapIdle /\ EncIdle

SpecFull == InitFull /\ [][NextDec]_vars

\* top-level encode calls on the instance graphs
EncInputs ==
    {[cls |-> "R", heap |-> h, root |-> 1] : h \in GraphsR}
    \cup {[cls |-> "W", heap |-> h, root |-> 1] : h \in GraphsN}
    \cup {[cls |-> "N", heap |-> h, root |-> 2] : h \in GraphsN}

InitEnc ==
    /\ EncInit(EncInputs)
    /\ schema \in (IF einput.cls = "R" THEN EncSchemas ELSE {PlainSchema})
    /\ MapIdle
    /\ doc = EmptyFn
    /\ strict_arrays = FALSE
    /\ validator = "none"
    /\ pending = {}
    /\ dec = DecStart("none")
    /\ status = "idle"
    /\ lastKey = NoKey

NextEnc == EncodeStep /\ UNCHANGED <<mapVars, decVars>>

SpecEnc == InitEnc /\ [][NextEnc]_vars

\* the round trip: encode a tree-shaped instance of R, then decode the flat
\* dict returned, in sparse mode, with the same schema and delimiter
InitTrip ==
    /\ EncInit({[cls |-> "R", heap |-> h, root |-> 1] :
                    h \in {g \in GraphsR : TreeShaped(g)}})
    /\ schema = PlainSchema
    /\ MapIdle
    /\ doc = EmptyFn
    /\ strict_arrays = FALSE
    /\ validator \in {"soft", "none"}
    /\ pending = {}
    /\ dec = DecStart("none")
    /\ status = "idle"
    /\ lastKey = NoKey

\* the flat dict the encode returned is handed to the decoder
Handoff ==
    /\ estatus = "returned"
    /\ status = "idle"
    /\ doc' = enc.retval
    /\ pending' = DOMAIN enc.retval
    /\ dec' = DecStart(validator)
    /\ status' = "running"
    /\ UNCHANGED <<mapVars, encVars, schema, strict_arrays, validator, lastKey>>

NextTrip == NextEnc \/ Handoff \/ DecodeKeyStep \/ DecodeFinishStep

SpecTrip == InitTrip /\ [][NextTrip]_vars

\* ------------------------------------------------------ decoder properties
\* the elements of array field f of the decoded root
ArrItems(f) ==
    IF dec.heap[1].f[f] = None THEN <<>> ELSE dec.heap[1].f[f].items

\* the leaf x of the i-th element of array field f
ElemX(f, i) == dec.heap[ArrItems(f)[i].id].f["x"]

\* key k addresses index n of array field f
Addresses(k, f, n) == k = ElemKey(f, n) \/ (n = 0 /\ k = BareKey(f))

\* the elements of every array are in ascending order of the external index
\* their keys carried
SparseOrdered ==
    \A f \in ArrayFields :
        \A i, j \in 1..Len(ArrItems(f)) :
            i < j => ParseInt(ElemX(f, i).v) < ParseInt(ElemX(f, j).v)

\* one strict step on index n of array f, whose length was L0 before: the
\* empty array gets element 0 first; then n past the length aborts, n at the
\* length appends one element, n below it selects element n
StrictStep(f, n) ==
    LET L0 == Len(ArrItems(f))
        L == IF L0 = 0 THEN 1 ELSE L0
    IN  IF n > L
        THEN status' = "InvalidIndex"
        ELSE /\ status' = "running"
             /\ Len(ArrItems(f)') = (IF n = L THEN L + 1 ELSE L)
             /\ \A i \in 1..L0 : ArrItems(f)'[i] = ArrItems(f)[i]
             /\ ElemX(f, n + 1)' = Str(Dec(n))

\* C5: under strict_arrays every array hop follows the append-only policy
\* (element 0 auto-materialised, n < L selects, n = L appends one, n > L is
\* a ValidationError), and under the sparse policy no index is refused and
\* the elements are in ascending order of external index.
C5_StrictArrays ==
    /\ [](~strict_arrays => (status # "InvalidIndex" /\ SparseOrdered))
    /\ [][\A f \in ArrayFields, n \in Indices :
              (strict_arrays /\ lastKey' \in pending /\ Addresses(lastKey', f, n))
                  => StrictStep(f, n)]_vars

\* index 2 on an untouched array under strict_arrays: element 0 was
\* materialised and the call was aborted
C5_Witness ==
    /\ strict_arrays
    /\ lastKey = ElemKey("c", 2)
    /\ status = "InvalidIndex"
    /\ Len(ArrItems("c")) = 1

\* the flat dict supplies no value for R.s, which is mandatory
MissingMandatory == MinOccurs("RS") > 0 /\ <<"s">> \notin DOMAIN doc

\* the loop reached its end and the call came to the frequency check
Completed == status \in {"returned", "FreqError"}

\* C6 as stated: a missing mandatory root field is a cardinality error under
\* soft validation and no error when validation is off.
C6_Original ==
    (Completed /\ MissingMandatory) =>
        /\ validator = "soft" => status = "FreqError"
        /\ validator = "none" => status = "returned"

\* C6: a missing mandatory root field is a cardinality error under soft
\* validation when the root class has validate_freq on, and goes unreported
\* when the root class has it off (every entry of the table is then
\* skipped); with validation disabled the same input raises no cardinality
\* error, as the frequency check runs only under soft validation.
C6_Cardinality ==
    /\ (Completed /\ MissingMandatory) =>
          /\ (validator = "soft" /\ ValidateFreq("R")) => status = "FreqError"
          /\ (validator = "soft" /\ ~ValidateFreq("R")) => status = "returned"
          /\ validator = "none" => status = "returned"
    /\ validator = "none" => status # "FreqError"

\* a call under soft validation that ended in the cardinality error for the
\* missing R.s
C6_Witness ==
    /\ validator = "soft"
    /\ MissingMandatory
    /\ ValidateFreq("R")
    /\ DOMAIN doc = {<<"l">>}
    /\ status = "FreqError"

\* the value of root field f is one blank instance of class t
IsBlankInstance(f, t) ==
    /\ dec.heap[1].f[f].k = "ref"
    /\ dec.heap[dec.heap[1].f[f].id] = Blank(t)

\* C8: after a key of a can-be-empty member with the token list ["empty"],
\* the call has not raised and the field is an empty sequence (array type or
\* max_occurs > 1) or one blank instance (singleton).
C8_EmptySentinel ==
    \A f \in {"a", "b", "c", "d"} :
        (lastKey = <<f>> /\ doc[<<f>>] = List(<<EmptyMarker>>)) =>
            /\ status \in {"running", "returned", "FreqError"}
            /\ LET t == FieldType("R", f)
               IN  IF IsArray(t) \/ MaxOccursGt1(t)
                   THEN dec.heap[1].f[f] = List(<<>>)
                   ELSE IsBlankInstance(f, t)

\* the number of values counted for field n of instance o
Counted(o, n) == IF <<o, n>> \in DOMAIN dec.icount THEN dec.icount[<<o, n>>] ELSE 0

\* some instance has a field whose own count is outside its bounds
SomeInstanceOutOfBounds ==
    \E o \in 1..Len(dec.heap) :
        \E n \in FieldNames(dec.heap[o].cls) :
            LET ft == FieldType(dec.heap[o].cls, n)
                bt == IF IsArray(ft) THEN ElemType(ft) ELSE ft
            IN  Counted(o, n) < MinOccurs(bt)
                \/ (~MaxOccursGt1(bt) /\ Counted(o, n) > MaxOccurs(bt))

\* C9: every frequencies entry counts the fields of one instance only, so
\* the cardinality error is raised only when some one instance has a field
\* whose own count is out of bounds.
C9_CountsIsolated ==
    /\ \A key \in DOMAIN dec.owners : Cardinality(dec.owners[key]) <= 1
    /\ status = "FreqError" => SomeInstanceOutOfBounds

\* C10: under strict_arrays a flat dict with exactly the indices 0..n-1 of
\* one array decodes without an index error, to n elements in index order.
C10_StrictComplete ==
    strict_arrays =>
        /\ status # "InvalidIndex"
        /\ \A f \in ArrayFields :
              (Completed /\ doc # EmptyFn /\ ElemKey(f, 0) \in DOMAIN doc) =>
                  /\ Len(ArrItems(f)) = Cardinality(DOMAIN doc)
                  /\ \A i \in 1..Len(ArrItems(f)) : ElemX(f, i) = Str(Dec(i - 1))

\* ---------------------------------------------------- index map properties
\* the number of inserted external indices below i
Rank(i) == Cardinality({j \in DOMAIN imap : j < i})

C3_CycleSafe == estatus # "RecursionError"

\* the key prefixes under which the root of class R references instance o
PrefixesTo(o) ==
    LET r == einput.heap[1].f
        elems(n) == IF r[n].k = "list"
                    THEN {<<n, "[">> \o Dec(i - 1) \o <<"]">> :
                             i \in {j \in 1..Len(r[n].items) : r[n].items[j] = Ref(o)}}
                    ELSE {}
    IN  {<<n>> : n \in {m \in {"a", "b"} : r[m] = Ref(o)}} \cup elems("c") \cup elems("d")

\* C4: an instance referenced by two fields or two array elements of the
\* root has its leaf keys in the returned dict under one path only.
C4_SharedOnce ==
    (estatus = "returned" /\ einput.cls = "R") =>
        \A o \in {2, 3} :
            Cardinality({p \in PrefixesTo(o) : (p \o <<".", "x">>) \in DOMAIN enc.retval}) <= 1

\* C7: an entry of the accumulator is never replaced during a call: a leaf
\* (single- or multi-valued) whose key is already present ends the call in
\* the key-collision error instead.
C7_NoOverwrite ==
    [][\A k \in DOMAIN enc.retval :
           k \in DOMAIN enc.retval' /\ enc.retval'[k] = enc.retval[k]]_vars

\* --------------------------------------------------- round-trip properties
\* the field values reachable from a value, instance identities left out
RECURSIVE Observed(_, _)
Observed(heap, v) ==
    CASE v.k = "ref" ->
            [k |-> "inst",
             f |-> [n \in DOMAIN heap[v.id].f |-> Observed(heap, heap[v.id].f[n])]]
      [] v.k = "list" ->
            [k |-> "list", items |-> [i \in 1..Len(v.items) |-> Observed(heap, v.items[i])]]
      [] OTHER -> v

\* C1: decoding (sparse mode) the flat dict an encode returned for a
\* tree-shaped instance succeeds and yields an instance with the same field
\* values.
C1_RoundTrip ==
    (estatus = "returned" /\ status \notin {"idle", "running"}) =>
        /\ status = "returned"
        /\ Observed(dec.heap, Ref(1)) = Observed(einput.heap, Ref(einput.root))
=============================================================================
